---- MODULE Spec2Model ----
(***************************************************************************)
(* Yubico.NativeShims: the reader-status bridge (pcsc.c), the AES-GCM      *)
(* cipher context and its control-command translation (ssl.gcmevp.c) and   *)
(* the dual-backend CMAC context (ssl.cmac.c).                             *)
(***************************************************************************)
EXTENDS Integers, Sequences, FiniteSets, TLC

\* ------------------------------------------------------------------------
\* Bounds
\* ------------------------------------------------------------------------
\* largest cReaders a modelled caller passes
MaxReaders == 2
\* longest message, in update calls, fed to one MAC computation
MaxUpdates == 2

\* ------------------------------------------------------------------------
\* State
\* ------------------------------------------------------------------------
VARIABLES
    nativeAtrSize,   \* sizeof(rgbAtr) of the subsystem's SCARD_READERSTATE
    pc,              \* where Native_SCardGetStatusChange stands: idle, wait, copy
    rgReaderStates,  \* the caller's array
    readerStates,    \* the mirror array, NULL when none is allocated
    result,          \* what SCardGetStatusChange reported
    ret,             \* what Native_SCardGetStatusChange returned
    outstanding,     \* live mirror arrays
    cancelled,       \* SCardCancel reached the blocked wait
    entry,           \* the caller's array as it was at entry
    waitCalls,       \* how often the current call invoked SCardGetStatusChange
    waitIn,          \* the array SCardGetStatusChange was handed
    waitOut,         \* the array as SCardGetStatusChange left it
    heapExhausted,   \* whether the heap was exhausted at the malloc
    mallocResult,    \* what the malloc of the current call returned
    trace            \* the steps the current call has taken

pcscVars == <<nativeAtrSize, pc, rgReaderStates, readerStates, result, ret, outstanding,
              cancelled, entry, waitCalls, waitIn, waitOut, heapExhausted,
              mallocResult, trace>>

VARIABLES
    encrypting,   \* the direction flag held by the EVP_CIPHER_CTX
    initDir,      \* direction of the latest init that reported success, -1 if none
    cipherCall    \* the latest cipher call: arguments, backend call, status

cipherVars == <<encrypting, initDir, cipherCall>>

VARIABLES
    macEvp,    \* the context of the EVP_MAC build
    macCmac,   \* the context of the CMAC_CTX build (PLATFORM_LINUX)
    macCall    \* the latest MAC call and what each build made of it

macVars == <<macEvp, macCmac, macCall>>

vars == <<pcscVars, cipherVars, macVars>>

\* ------------------------------------------------------------------------
\* pcsc.c
\* ------------------------------------------------------------------------
\* uint8_t rgbAtr[36]
RGB_ATR_SIZE == 36

\* sizeof(readerStates[i].rgbAtr): the subsystem's header, chosen by the
\* includes at lines 4-11, declares rgbAtr[36] (winscard.h on Windows) or
\* rgbAtr[MAX_ATR_SIZE] with MAX_ATR_SIZE 33 (pcsc-lite, macOS)
NativeAtrSizes == {33, RGB_ATR_SIZE}

NULL == "NULL"
NoValue == "none"

\* status codes of the reader subsystem, by name
SCARD_S_SUCCESS == "SCARD_S_SUCCESS"
SCARD_E_NO_MEMORY == "SCARD_E_NO_MEMORY"
SCARD_E_TIMEOUT == "SCARD_E_TIMEOUT"
SCARD_E_CANCELLED == "SCARD_E_CANCELLED"
SCARD_E_NO_SERVICE == "SCARD_E_NO_SERVICE"

\* what the blocking wait can report when it was not cancelled
WaitStatuses == {SCARD_S_SUCCESS, SCARD_E_TIMEOUT, SCARD_E_NO_SERVICE}

AtrEmpty == [i \in 1..RGB_ATR_SIZE |-> 0]
AtrShort == [i \in 1..RGB_ATR_SIZE |-> IF i <= 2 THEN 59 ELSE 0]
AtrFull == [i \in 1..RGB_ATR_SIZE |-> i]
AtrCard == [i \in 1..RGB_ATR_SIZE |-> IF i <= 3 THEN 100 + i ELSE 0]
AtrJunk == [i \in 1..RGB_ATR_SIZE |-> 255]

\* NATIVE_SCARD_READERSTATE values a caller passes.  szReader is an address
\* (a borrowed pointer), not the text it points to.
NATIVE_SCARD_READERSTATE ==
    { [szReader |-> "addrA", pvUserData |-> 0, dwCurrentState |-> 0,
       dwEventState |-> 0, cbAtr |-> 0, rgbAtr |-> AtrEmpty],
      [szReader |-> "addrB", pvUserData |-> 7, dwCurrentState |-> 1,
       dwEventState |-> 2, cbAtr |-> 2, rgbAtr |-> AtrShort],
      [szReader |-> "addrA", pvUserData |-> 7, dwCurrentState |-> 16,
       dwEventState |-> 0, cbAtr |-> RGB_ATR_SIZE, rgbAtr |-> AtrFull] }

\* the arrays rgReaderStates[0..cReaders-1] a caller passes
CallerArrays == UNION { [1..n -> NATIVE_SCARD_READERSTATE] : n \in 0..MaxReaders }

\* malloc(n records): NULL when the heap is exhausted, and for a zero-byte
\* request NULL or a unique pointer, as the C library chooses.
malloc(n, exhausted, zeroIsNull) ==
    IF exhausted \/ (n = 0 /\ zeroIsNull) THEN NULL ELSE "block"

\* if (readerStates == NULL)
AllocFailed_never(p) == FALSE
AllocFailed_inverted(p) == p # NULL
AllocFailed(p) == p = NULL

\* free(readerStates): one live block fewer
free_leak(live) == live
free(live) == live - 1

\* memset(readerStates, 0, ...): one zeroed SCARD_READERSTATE
ZeroRecord ==
    [szReader |-> NULL, pvUserData |-> 0, dwCurrentState |-> 0,
     dwEventState |-> 0, cbAtr |-> 0, rgbAtr |-> [b \in 1..nativeAtrSize |-> 0]]

\* memcpy(dst, src, sizeof(readerStates[i].rgbAtr)): the leading bytes of
\* dst are replaced, any further bytes of dst stay
memcpy(dst, src) ==
    [b \in DOMAIN dst |-> IF b <= nativeAtrSize THEN src[b] ELSE dst[b]]

\* the forward copy loop, lines 152-159, applied to the zeroed array
ToNative_noevent(states) ==
    [i \in 1..Len(states) |->
        [ZeroRecord EXCEPT !.szReader = states[i].szReader,
                           !.dwCurrentState = states[i].dwCurrentState,
                           !.cbAtr = states[i].cbAtr,
                           !.rgbAtr = memcpy(ZeroRecord.rgbAtr, states[i].rgbAtr)]]
ToNative(states) ==
    [i \in 1..Len(states) |->
        [ZeroRecord EXCEPT !.szReader = states[i].szReader,
                           !.dwCurrentState = states[i].dwCurrentState,
                           !.dwEventState = states[i].dwEventState,
                           !.cbAtr = states[i].cbAtr,
                           !.rgbAtr = memcpy(ZeroRecord.rgbAtr, states[i].rgbAtr)]]

\* the reverse copy loop, lines 168-174
FromNative_tag(native, states) ==
    [i \in 1..Len(states) |->
        [states[i] EXCEPT !.pvUserData = native[i].pvUserData,
                          !.dwCurrentState = native[i].dwCurrentState,
                          !.dwEventState = native[i].dwEventState,
                          !.cbAtr = native[i].cbAtr,
                          !.rgbAtr = memcpy(states[i].rgbAtr, native[i].rgbAtr)]]
FromNative(native, states) ==
    [i \in 1..Len(states) |->
        [states[i] EXCEPT !.dwCurrentState = native[i].dwCurrentState,
                          !.dwEventState = native[i].dwEventState,
                          !.cbAtr = native[i].cbAtr,
                          !.rgbAtr = memcpy(states[i].rgbAtr, native[i].rgbAtr)]]

\* return result;
ReturnStatus_success(status) == SCARD_S_SUCCESS
ReturnStatus(status) == status

\* What SCardGetStatusChange may leave in one record of the array it was
\* handed: nothing, a card event, or every field rewritten.
SubsystemWrites(m) ==
    { m,
      [m EXCEPT !.dwEventState = 34, !.cbAtr = 3,
                !.rgbAtr = [b \in DOMAIN m.rgbAtr |-> AtrCard[b]]],
      [szReader |-> "addrSub", pvUserData |-> 99, dwCurrentState |-> 77,
       dwEventState |-> 18, cbAtr |-> nativeAtrSize,
       rgbAtr |-> [b \in DOMAIN m.rgbAtr |-> AtrJunk[b]]] }

SubsystemOutcomes(native) ==
    { out \in [1..Len(native) -> UNION { SubsystemWrites(native[i]) : i \in 1..Len(native) }] :
        \A i \in 1..Len(native) : out[i] \in SubsystemWrites(native[i]) }

PcscInit ==
    /\ nativeAtrSize \in NativeAtrSizes
    /\ pc = "idle"
    /\ rgReaderStates = <<>>
    /\ readerStates = NULL
    /\ result = NoValue
    /\ ret = NoValue
    /\ outstanding = 0
    /\ cancelled = FALSE
    /\ entry = <<>>
    /\ waitCalls = 0
    /\ waitIn = <<>>
    /\ waitOut = <<>>
    /\ heapExhausted = FALSE
    /\ mallocResult = NoValue
    /\ trace = <<>>

\* Native_SCardGetStatusChange, lines 143-166: malloc, the early return, the
\* memset, the forward copy and the call into the blocking wait
Native_SCardGetStatusChange_Enter ==
    /\ UNCHANGED <<cipherVars, macVars, nativeAtrSize>>
    /\ pc = "idle"
    /\ \E states \in CallerArrays, exhausted \in BOOLEAN, zeroIsNull \in BOOLEAN :
        LET cReaders == Len(states)
            p == malloc(cReaders, exhausted, zeroIsNull)
        IN  /\ rgReaderStates' = states
            /\ entry' = states
            /\ heapExhausted' = exhausted
            /\ mallocResult' = p
            /\ outstanding' = IF p = NULL THEN outstanding ELSE outstanding + 1
            /\ result' = NoValue
            /\ cancelled' = FALSE
            /\ waitOut' = <<>>
            /\ IF AllocFailed(p)
               THEN /\ readerStates' = NULL
                    /\ ret' = SCARD_E_NO_MEMORY
                    /\ pc' = "idle"
                    /\ waitIn' = <<>>
                    /\ waitCalls' = 0
                    /\ trace' = <<"malloc", "return">>
               ELSE /\ readerStates' = ToNative(states)
                    /\ waitIn' = ToNative(states)
                    /\ waitCalls' = 1
                    /\ ret' = NoValue
                    /\ pc' = "wait"
                    /\ trace' = <<"malloc", "memset", "copy_in", "wait">>

\* SCardGetStatusChange unblocks: it has written what it wanted into the
\* array it was handed and reports a status
SCardGetStatusChange_Return ==
    /\ UNCHANGED <<cipherVars, macVars, nativeAtrSize>>
    /\ pc = "wait"
    /\ \E out \in SubsystemOutcomes(readerStates) :
         /\ readerStates' = out
         /\ waitOut' = out
    /\ IF cancelled
       THEN result' = SCARD_E_CANCELLED
       ELSE \E s \in WaitStatuses : result' = s
    /\ pc' = "copy"
    /\ trace' = Append(trace, "unblocked")
    /\ UNCHANGED <<rgReaderStates, ret, outstanding, cancelled, entry, waitCalls,
                   waitIn, heapExhausted, mallocResult>>

\* Native_SCardGetStatusChange, lines 168-178: reverse copy, free, return
Native_SCardGetStatusChange_Exit ==
    /\ UNCHANGED <<cipherVars, macVars, nativeAtrSize>>
    /\ pc = "copy"
    /\ rgReaderStates' = FromNative(readerStates, rgReaderStates)
    /\ readerStates' = NULL
    /\ outstanding' = free(outstanding)
    /\ ret' = ReturnStatus(result)
    /\ pc' = "idle"
    /\ trace' = trace \o <<"copy_out", "free", "return">>
    /\ UNCHANGED <<result, cancelled, entry, waitCalls, waitIn, waitOut,
                   heapExhausted, mallocResult>>

\* Native_SCardCancel from another thread: a wait blocked on the context is
\* told to return; without one the call has no effect here
Native_SCardCancel ==
    /\ UNCHANGED <<cipherVars, macVars, nativeAtrSize>>
    /\ cancelled' = (cancelled \/ pc = "wait")
    /\ UNCHANGED <<pc, rgReaderStates, readerStates, result, ret, outstanding,
                   entry, waitCalls, waitIn, waitOut, heapExhausted, mallocResult,
                   trace>>

PcscNext ==
    \/ Native_SCardGetStatusChange_Enter
    \/ SCardGetStatusChange_Return
    \/ Native_SCardGetStatusChange_Exit
    \/ Native_SCardCancel

\* ------------------------------------------------------------------------
\* ssl.gcmevp.c
\* ------------------------------------------------------------------------
\* int32_t arguments a caller passes for isEncrypt, csCmd and algorithm:
\* the extremes of the type, zero, and the values around the recognised ones
Int32Samples == {-2147483647 - 1, -1, 0, 1, 2, 3, 4, 15, 16, 17, 18, 2147483647}

\* backend control codes, by name
EVP_CTRL_CCM_GET_TAG == "EVP_CTRL_CCM_GET_TAG"
EVP_CTRL_CCM_SET_TAG == "EVP_CTRL_CCM_SET_TAG"
Rejected == "rejected"

\* what the backend primitives report
EvpStatuses == {0, 1}
CtrlStatuses == {-1, 0, 1}

\* Native_EVP_Aes256Gcm_Init: if (isEncrypt != 0) Encrypt else Decrypt
InitBackend_positive(isEncrypt) ==
    IF isEncrypt > 0 THEN "EVP_EncryptInit_ex" ELSE "EVP_DecryptInit_ex"
InitBackend(isEncrypt) ==
    IF isEncrypt # 0 THEN "EVP_EncryptInit_ex" ELSE "EVP_DecryptInit_ex"

\* Native_EVP_Update: if (EVP_CIPHER_CTX_encrypting(c) != 0)
UpdateBackend_encrypt(flag) == "EVP_EncryptUpdate"
UpdateBackend(flag) ==
    IF flag # 0 THEN "EVP_EncryptUpdate" ELSE "EVP_DecryptUpdate"

\* Native_EVP_Final_ex: if (EVP_CIPHER_CTX_encrypting(c) != 0)
FinalBackend(flag) ==
    IF flag # 0 THEN "EVP_EncryptFinal_ex" ELSE "EVP_DecryptFinal_ex"

\* the switch of Native_EVP_CIPHER_CTX_ctrl: default returns, 16 sets the
\* get-tag code and falls through to 17, which keeps the set-tag code
Translate_nofall(csCmd) ==
    CASE csCmd = 16 -> EVP_CTRL_CCM_SET_TAG
      [] csCmd = 17 -> EVP_CTRL_CCM_SET_TAG
      [] OTHER -> Rejected
Translate(csCmd) ==
    CASE csCmd = 16 -> EVP_CTRL_CCM_GET_TAG
      [] csCmd = 17 -> EVP_CTRL_CCM_SET_TAG
      [] OTHER -> Rejected

\* after Native_EVP_CIPHER_CTX_new: a zeroed context
CipherInit ==
    /\ encrypting = 0
    /\ initDir = -1
    /\ cipherCall = [fn |-> "new", arg |-> 0, p1 |-> 0, flagBefore |-> 0,
                     backend |-> "EVP_CIPHER_CTX_new", cmd |-> NoValue,
                     backendStatus |-> 1, status |-> 1]

\* Native_EVP_Aes256Gcm_Init.  The backend records the direction; when it
\* reports failure it may or may not have recorded it already.
Native_EVP_Aes256Gcm_Init ==
    /\ UNCHANGED <<pcscVars, macVars>>
    /\ \E isEncrypt \in Int32Samples, st \in EvpStatuses, recorded \in BOOLEAN :
        LET backend == InitBackend(isEncrypt)
            dir == IF backend = "EVP_EncryptInit_ex" THEN 1 ELSE 0
        IN  /\ encrypting' = IF st = 1 \/ recorded THEN dir ELSE encrypting
            /\ initDir' = IF st = 1 THEN dir ELSE initDir
            /\ cipherCall' = [fn |-> "init", arg |-> isEncrypt, p1 |-> 0,
                              flagBefore |-> encrypting, backend |-> backend,
                              cmd |-> NoValue, backendStatus |-> st,
                              status |-> st]

\* Native_EVP_Update
Native_EVP_Update ==
    /\ UNCHANGED <<pcscVars, macVars>>
    /\ \E st \in EvpStatuses :
        /\ cipherCall' = [fn |-> "update", arg |-> 0, p1 |-> 0,
                          flagBefore |-> encrypting,
                          backend |-> UpdateBackend(encrypting),
                          cmd |-> NoValue, backendStatus |-> st, status |-> st]
        /\ UNCHANGED <<encrypting, initDir>>

\* Native_EVP_Final_ex
Native_EVP_Final_ex ==
    /\ UNCHANGED <<pcscVars, macVars>>
    /\ \E st \in EvpStatuses :
        /\ cipherCall' = [fn |-> "final", arg |-> 0, p1 |-> 0,
                          flagBefore |-> encrypting,
                          backend |-> FinalBackend(encrypting),
                          cmd |-> NoValue, backendStatus |-> st, status |-> st]
        /\ UNCHANGED <<encrypting, initDir>>

\* Native_EVP_CIPHER_CTX_ctrl
Native_EVP_CIPHER_CTX_ctrl ==
    /\ UNCHANGED <<pcscVars, macVars>>
    /\ \E csCmd \in Int32Samples, p1 \in {0, 16}, st \in CtrlStatuses :
        LET cmd == Translate(csCmd)
        IN  /\ cipherCall' =
                IF cmd = Rejected
                THEN [fn |-> "ctrl", arg |-> csCmd, p1 |-> p1,
                      flagBefore |-> encrypting, backend |-> NoValue,
                      cmd |-> NoValue, backendStatus |-> 0, status |-> 0]
                ELSE [fn |-> "ctrl", arg |-> csCmd, p1 |-> p1,
                      flagBefore |-> encrypting,
                      backend |-> "EVP_CIPHER_CTX_ctrl", cmd |-> cmd,
                      backendStatus |-> st, status |-> st]
            /\ UNCHANGED <<encrypting, initDir>>

CipherNext ==
    \/ Native_EVP_Aes256Gcm_Init
    \/ Native_EVP_Update
    \/ Native_EVP_Final_ex
    \/ Native_EVP_CIPHER_CTX_ctrl

\* ------------------------------------------------------------------------
\* ssl.cmac.c
\* ------------------------------------------------------------------------
\* #define CMAC_MAX_BLOCK_SIZE 16: the size of the tag
CMAC_MAX_BLOCK_SIZE == 16

\* keyLen values a caller passes, and the capacities it offers to final
KeyLens == {16, 24, 32}
OutputSizes == {0, 8, 16, 32}
Inputs == {"a", "b"}

\* the switch of the EVP_MAC build, lines 59-78
CipherString_default256(algorithm) ==
    CASE algorithm = 1 -> "aes-128-cbc"
      [] algorithm = 2 -> "aes-192-cbc"
      [] OTHER -> "aes-256-cbc"
CipherString(algorithm) ==
    CASE algorithm = 2 -> "aes-192-cbc"
      [] algorithm = 3 -> "aes-256-cbc"
      [] OTHER -> "aes-128-cbc"

\* the switch of the CMAC_CTX build, lines 94-107; EVP_aes_128_cbc() is the
\* cipher named aes-128-cbc, and so on
EvpCipher(algorithm) ==
    CASE algorithm = 2 -> "aes-192-cbc"
      [] algorithm = 3 -> "aes-256-cbc"
      [] OTHER -> "aes-128-cbc"

\* both backends key a fixed-key-length cipher: they report success exactly
\* when keyLen is the cipher's key length
BackendInitStatus(cipher, keyLen) ==
    IF \/ cipher = "aes-128-cbc" /\ keyLen = 16
       \/ cipher = "aes-192-cbc" /\ keyLen = 24
       \/ cipher = "aes-256-cbc" /\ keyLen = 32
    THEN 1 ELSE 0

\* the tag both backends compute: AES-CMAC of the message under the key
Tag(ctx) == <<ctx.cipher, ctx.keyLen, ctx.msg>>
NoTag == <<>>

\* Native_CMAC_EVP_MAC_final, EVP_MAC build: EVP_MAC_final is told the
\* capacity and refuses a buffer smaller than the tag, leaving outputLen as
\* the shim initialised it
EVP_MAC_final(ctx, outputSize) ==
    IF outputSize < CMAC_MAX_BLOCK_SIZE
    THEN [status |-> 0, outLen |-> outputSize, written |-> 0, tag |-> NoTag]
    ELSE [status |-> 1, outLen |-> CMAC_MAX_BLOCK_SIZE,
          written |-> CMAC_MAX_BLOCK_SIZE, tag |-> Tag(ctx)]

\* Native_CMAC_EVP_MAC_final, CMAC_CTX build: CMAC_Final is not told the
\* capacity; it writes the whole tag and stores its length in outputLen
CMAC_Final(ctx, outputSize) ==
    [status |-> 1, outLen |-> CMAC_MAX_BLOCK_SIZE,
     written |-> CMAC_MAX_BLOCK_SIZE, tag |-> Tag(ctx)]

FreshMac == [state |-> "created", cipher |-> NoValue, keyLen |-> 0, msg |-> <<>>]

NoOutput == [status |-> 1, outLen |-> 0, written |-> 0, tag |-> NoTag]

\* after Native_CMAC_EVP_MAC_CTX_new in each build
MacInit ==
    /\ macEvp = FreshMac
    /\ macCmac = FreshMac
    /\ macCall = [fn |-> "new", algorithm |-> 0, keyLen |-> 0, outputSize |-> 0,
                  evpCipher |-> NoValue, cmacCipher |-> NoValue,
                  evp |-> NoOutput, cmac |-> NoOutput]

MacInitCtx(ctx, cipher, keyLen) ==
    IF BackendInitStatus(cipher, keyLen) = 1
    THEN [state |-> "initialized", cipher |-> cipher, keyLen |-> keyLen, msg |-> <<>>]
    ELSE [ctx EXCEPT !.state = "created"]

\* Native_CMAC_EVP_MAC_init, in both builds
Native_CMAC_EVP_MAC_init ==
    /\ UNCHANGED <<pcscVars, cipherVars>>
    /\ \E algorithm \in Int32Samples, keyLen \in KeyLens :
        LET cs == CipherString(algorithm)
            ec == EvpCipher(algorithm)
        IN  /\ macEvp' = MacInitCtx(macEvp, cs, keyLen)
            /\ macCmac' = MacInitCtx(macCmac, ec, keyLen)
            /\ macCall' = [fn |-> "init", algorithm |-> algorithm,
                           keyLen |-> keyLen, outputSize |-> 0,
                           evpCipher |-> cs, cmacCipher |-> ec,
                           evp |-> [NoOutput EXCEPT !.status = BackendInitStatus(cs, keyLen)],
                           cmac |-> [NoOutput EXCEPT !.status = BackendInitStatus(ec, keyLen)]]

\* Native_CMAC_EVP_MAC_update, in both builds, on an initialised context
Native_CMAC_EVP_MAC_update ==
    /\ UNCHANGED <<pcscVars, cipherVars>>
    /\ macEvp.state = "initialized"
    /\ macCmac.state = "initialized"
    /\ Len(macEvp.msg) < MaxUpdates
    /\ \E input \in Inputs :
        /\ macEvp' = [macEvp EXCEPT !.msg = Append(@, input)]
        /\ macCmac' = [macCmac EXCEPT !.msg = Append(@, input)]
        /\ macCall' = [fn |-> "update", algorithm |-> 0, keyLen |-> 0,
                       outputSize |-> 0, evpCipher |-> NoValue,
                       cmacCipher |-> NoValue, evp |-> NoOutput, cmac |-> NoOutput]

\* Native_CMAC_EVP_MAC_final, in both builds, on an initialised context
Native_CMAC_EVP_MAC_final ==
    /\ UNCHANGED <<pcscVars, cipherVars>>
    /\ macEvp.state = "initialized"
    /\ macCmac.state = "initialized"
    /\ \E outputSize \in OutputSizes :
        /\ macCall' = [fn |-> "final", algorithm |-> 0, keyLen |-> 0,
                       outputSize |-> outputSize, evpCipher |-> NoValue,
                       cmacCipher |-> NoValue,
                       evp |-> EVP_MAC_final(macEvp, outputSize),
                       cmac |-> CMAC_Final(macCmac, outputSize)]
        /\ macEvp' = [macEvp EXCEPT !.state = "finalized"]
        /\ macCmac' = [macCmac EXCEPT !.state = "finalized"]

MacNext ==
    \/ Native_CMAC_EVP_MAC_init
    \/ Native_CMAC_EVP_MAC_update
    \/ Native_CMAC_EVP_MAC_final

Init == PcscInit /\ CipherInit /\ MacInit

SpecPcsc == Init /\ [][PcscNext]_vars

SpecCipher == Init /\ [][CipherNext]_vars

SpecMac == Init /\ [][MacNext]_vars

\* ------------------------------------------------------------------------
\* Properties of the reader-status bridge
\* ------------------------------------------------------------------------
Returned == pc = "idle" /\ trace # <<>>
Occurrences(e) == Cardinality({ k \in 1..Len(trace) : trace[k] = e })
Records == 1..Len(rgReaderStates)

\* C1: whenever Native_SCardGetStatusChange has returned, whatever its
\* outcome, no mirror array is outstanding: an array that was allocated was
\* freed exactly once, and while the call is in progress exactly one is live.
C1_NoOutstandingMirror ==
    /\ pc = "idle" => /\ outstanding = 0
                      /\ readerStates = NULL
                      /\ (Returned /\ mallocResult # NULL) => Occurrences("free") = 1
                      /\ (Returned /\ mallocResult = NULL) => Occurrences("free") = 0
    /\ pc # "idle" => outstanding = 1

C1_Witness ==
    /\ Returned
    /\ mallocResult # NULL
    /\ ret = SCARD_E_CANCELLED
    /\ Len(entry) = 2

C3_MirrorEqualsCaller ==
    waitCalls > 0 =>
        /\ Len(waitIn) = Len(entry)
        /\ \A i \in 1..Len(entry) :
            /\ waitIn[i].szReader = entry[i].szReader
            /\ waitIn[i].pvUserData = entry[i].pvUserData
            /\ waitIn[i].dwCurrentState = entry[i].dwCurrentState
            /\ waitIn[i].dwEventState = entry[i].dwEventState
            /\ waitIn[i].cbAtr = entry[i].cbAtr
            /\ \A b \in 1..RGB_ATR_SIZE :
                /\ b \in DOMAIN waitIn[i].rgbAtr
                /\ waitIn[i].rgbAtr[b] = entry[i].rgbAtr[b]

\* C3 amended: the array handed to the wait has exactly cReaders records; in
\* record i readerName is the caller's reference and currentState,
\* eventState and atrLength equal the caller's, the record's ATR buffer (36
\* bytes, or 33 where the subsystem declares a 33-byte buffer) holds the
\* leading bytes of the caller's ATR, and the userTag is not copied and
\* stays zero.
C3_MirrorForwardCopy ==
    waitCalls > 0 =>
        /\ Len(waitIn) = Len(entry)
        /\ \A i \in 1..Len(entry) :
            /\ waitIn[i].szReader = entry[i].szReader
            /\ waitIn[i].pvUserData = 0
            /\ waitIn[i].dwCurrentState = entry[i].dwCurrentState
            /\ waitIn[i].dwEventState = entry[i].dwEventState
            /\ waitIn[i].cbAtr = entry[i].cbAtr
            /\ DOMAIN waitIn[i].rgbAtr = 1..nativeAtrSize
            /\ \A b \in 1..nativeAtrSize : waitIn[i].rgbAtr[b] = entry[i].rgbAtr[b]

C3_Witness ==
    /\ pc = "wait"
    /\ Len(waitIn) = 2
    /\ entry[2].pvUserData = 7
    /\ entry[2].dwEventState = 2
    /\ entry[1].cbAtr = RGB_ATR_SIZE
    /\ waitIn[1].rgbAtr[nativeAtrSize] = nativeAtrSize

\* C4: when malloc returns NULL the call returns SCARD_E_NO_MEMORY at once,
\* SCardGetStatusChange is not invoked and the caller's records are as they
\* were at entry.
C4_AllocationFailure ==
    (trace # <<>> /\ mallocResult = NULL) =>
        /\ pc = "idle"
        /\ ret = SCARD_E_NO_MEMORY
        /\ waitCalls = 0
        /\ rgReaderStates = entry

C4_Witness ==
    /\ Returned
    /\ mallocResult = NULL
    /\ heapExhausted
    /\ Len(entry) = 2
    /\ ret = SCARD_E_NO_MEMORY

\* C5: in a call whose allocation succeeded the steps are wait, reverse copy,
\* free, return in that order; the call has not returned while the copy is
\* pending, the caller's eventState, atrLength and ATR are what the wait left
\* in the mirror, and the value returned is the status the wait reported,
\* a cancellation included.
C5_WaitCopyReleaseReturn ==
    /\ pc = "copy" => /\ ret = NoValue
                      /\ readerStates = waitOut
                      /\ result \in WaitStatuses \cup {SCARD_E_CANCELLED}
                      /\ cancelled => result = SCARD_E_CANCELLED
    /\ (Returned /\ mallocResult # NULL) =>
        /\ trace = <<"malloc", "memset", "copy_in", "wait", "unblocked",
                     "copy_out", "free", "return">>
        /\ ret = result
        /\ \A i \in Records :
            /\ rgReaderStates[i].dwEventState = waitOut[i].dwEventState
            /\ rgReaderStates[i].cbAtr = waitOut[i].cbAtr
            /\ \A b \in 1..RGB_ATR_SIZE :
                rgReaderStates[i].rgbAtr[b] =
                    IF b <= nativeAtrSize THEN waitOut[i].rgbAtr[b]
                    ELSE entry[i].rgbAtr[b]

C5_Witness ==
    /\ Returned
    /\ cancelled
    /\ ret = SCARD_E_CANCELLED
    /\ \E i \in Records :
        /\ rgReaderStates[i].dwEventState = 34
        /\ rgReaderStates[i].rgbAtr[3] = AtrCard[3]
        /\ entry[i].dwEventState = 2

\* C10: with cReaders = 0 the call returns SCARD_E_NO_MEMORY without invoking
\* the wait exactly when malloc returned NULL for the zero-byte request, and
\* otherwise hands the wait an empty array and returns its status.
C10_ZeroReaders ==
    (Returned /\ Len(entry) = 0) =>
        IF mallocResult = NULL
        THEN ret = SCARD_E_NO_MEMORY /\ waitCalls = 0
        ELSE waitCalls = 1 /\ waitIn = <<>> /\ ret = result /\ ret # SCARD_E_NO_MEMORY

\* out of memory reported although the heap was not exhausted
C10_Witness ==
    /\ Returned
    /\ Len(entry) = 0
    /\ ~heapExhausted
    /\ ret = SCARD_E_NO_MEMORY

\* ------------------------------------------------------------------------
\* Properties of the cipher context and the command translation
\* ------------------------------------------------------------------------
EncryptSteps == {"EVP_EncryptUpdate", "EVP_EncryptFinal_ex"}
DecryptSteps == {"EVP_DecryptUpdate", "EVP_DecryptFinal_ex"}

\* C6: command 16 reaches the backend with the get-tag code, 17 with the
\* set-tag code, and the backend's result is returned unchanged; every other
\* 32-bit value returns 0, invokes no backend call and leaves the context's
\* state alone.
C6_CommandTranslation ==
    cipherCall.fn = "ctrl" =>
        /\ encrypting = cipherCall.flagBefore
        /\ CASE cipherCall.arg = 16 ->
                    /\ cipherCall.backend = "EVP_CIPHER_CTX_ctrl"
                    /\ cipherCall.cmd = EVP_CTRL_CCM_GET_TAG
                    /\ cipherCall.status = cipherCall.backendStatus
             [] cipherCall.arg = 17 ->
                    /\ cipherCall.backend = "EVP_CIPHER_CTX_ctrl"
                    /\ cipherCall.cmd = EVP_CTRL_CCM_SET_TAG
                    /\ cipherCall.status = cipherCall.backendStatus
             [] OTHER ->
                    /\ cipherCall.backend = NoValue
                    /\ cipherCall.cmd = NoValue
                    /\ cipherCall.status = 0

C6_Witness ==
    /\ cipherCall.fn = "ctrl"
    /\ cipherCall.arg = 16
    /\ cipherCall.p1 = 16
    /\ cipherCall.cmd = EVP_CTRL_CCM_GET_TAG
    /\ cipherCall.status = -1

\* C7 as stated: update and final perform the encrypt step exactly when the
\* latest init that reported success was an encrypting one.
C7_DirectionOfLastSuccessfulInit ==
    cipherCall.fn \in {"update", "final"} =>
        (cipherCall.backend \in EncryptSteps <=> initDir = 1)

\* C7 amended: update and final perform the encrypt step exactly when the
\* context's own direction flag is nonzero at the call, and the decrypt step
\* otherwise; they take no direction from the caller and leave the flag as it
\* was.  An init that reports success has recorded isEncrypt != 0 in the
\* flag; an init that reports failure may have recorded its direction too.
C7_DirectionFromContext ==
    /\ cipherCall.fn \in {"update", "final"} =>
        /\ encrypting = cipherCall.flagBefore
        /\ cipherCall.arg = 0
        /\ cipherCall.backend \in EncryptSteps <=> cipherCall.flagBefore # 0
        /\ cipherCall.backend \in DecryptSteps <=> cipherCall.flagBefore = 0
    /\ cipherCall.fn = "update" =>
        cipherCall.backend \in {"EVP_EncryptUpdate", "EVP_DecryptUpdate"}
    /\ cipherCall.fn = "final" =>
        cipherCall.backend \in {"EVP_EncryptFinal_ex", "EVP_DecryptFinal_ex"}
    /\ (cipherCall.fn = "init" /\ cipherCall.status = 1) =>
        /\ encrypting = (IF cipherCall.arg # 0 THEN 1 ELSE 0)
        /\ initDir = encrypting

\* a decrypting update although the latest successful init was encrypting
C7_Witness ==
    /\ cipherCall.fn = "update"
    /\ cipherCall.backend = "EVP_DecryptUpdate"
    /\ initDir = 1
    /\ encrypting = 0

\* ------------------------------------------------------------------------
\* Properties of the MAC context
\* ------------------------------------------------------------------------
\* C8: the two builds agree on every call: same status, same tag bytes
\* written to the caller's buffer and same reported length, also when the
\* capacity passed to final is smaller than the tag.
C8_BackendsEquivalent ==
    /\ macCall.evp.status = macCall.cmac.status
    /\ macCall.evp.outLen = macCall.cmac.outLen
    /\ macCall.evp.written = macCall.cmac.written
    /\ macCall.evp.tag = macCall.cmac.tag

\* C9: init rejects no algorithmId: 2 selects the 192-bit cipher, 3 the
\* 256-bit cipher and every other int32 the 128-bit cipher, in both builds;
\* the backend is invoked with that cipher and the caller's key, and the
\* status returned is the backend's.
C9_InitAcceptsEveryAlgorithm ==
    macCall.fn = "init" =>
        LET expected == IF macCall.algorithm = 2 THEN "aes-192-cbc"
                        ELSE IF macCall.algorithm = 3 THEN "aes-256-cbc"
                        ELSE "aes-128-cbc"
        IN  /\ macCall.evpCipher = expected
            /\ macCall.cmacCipher = expected
            /\ macCall.evp.status = BackendInitStatus(expected, macCall.keyLen)
            /\ macCall.cmac.status = BackendInitStatus(expected, macCall.keyLen)
            /\ macCall.evp.status = 1 =>
                /\ macEvp.cipher = expected
                /\ macEvp.keyLen = macCall.keyLen
                /\ macCmac.cipher = expected
                /\ macCmac.keyLen = macCall.keyLen

\* an out-of-range algorithmId initialised the 128-bit cipher successfully
C9_Witness ==
    /\ macCall.fn = "init"
    /\ macCall.algorithm = -1
    /\ macCall.evp.status = 1
    /\ macCall.cmac.status = 1
    /\ macEvp.state = "initialized"
    /\ macEvp.cipher = "aes-128-cbc"

====
